---- MODULE Spec2Model ----
\* Model of the command "secret" (src/secret.go): Shamir share generation with an
\* oversampled, shuffled pool, and fail-soft recovery from pasted share text.
\* Text is modelled as sequences of one-character strings.
EXTENDS Integers, Sequences, FiniteSets, TLC

VARIABLES
  doRecover,      \* flag -recover
  numShares,      \* flag -n
  minSharesFlag,  \* flag -k
  secrets,        \* flag -secrets: "-" or a path
  stdin,          \* lines waiting on standard input, each as [text, repeat]
  file,           \* the file named by -secrets: [exists, lines]
  pc,             \* "start" | "exited"
  exit,           \* process exit code, -1 while running (2: runtime panic)
  out,            \* lines written to standard output
  diag,           \* lines cmdRecover wrote to its diagnostic sink
  errMsg,         \* the error die() printed, "" if none
  usage,          \* whether die() printed the usage text
  reader,         \* the stream handed to cmdRecover: "none" | "stdin" | "file" | "nil"
  fileOpen,       \* whether the handle of the -secrets file is open
  engineNew,      \* arguments of the calls of sharedsecret.New
  engineRecover,  \* arguments of the calls of sharedsecret.Recover
  handled,        \* what cmdRecover did with each line it examined
  gen             \* the generation run whose output was pasted into this run

vars == <<doRecover, numShares, minSharesFlag, secrets, stdin, file, pc, exit, out,
          diag, errMsg, usage, reader, fileOpen, engineNew, engineRecover, handled, gen>>

-----------------------------------------------------------------------------
\* Bounds of the model.

MaxN == 3          \* -n ranges over -1..MaxN, the default and BigN
MaxK == 3          \* -k ranges over -1..MaxK and the values of the tests
BigN == 101        \* a share count whose square exceeds minShares
MaxLines == 2      \* length of the sampled input streams
MaxSubsetN == 5    \* up to this n every subset of the share lines is pasted

-----------------------------------------------------------------------------
\* Program constants.

minShares == 10000
DefaultN == 5
DefaultK == 3
StdinArg == "-"
ErrNotEnough == "There will not be enough shares to recover the secret."
ErrNotPositive == "Number of shares must be larger than 1."

\* bufio.MaxScanTokenSize: the scanner of cmdRecover keeps the default buffer.
MaxScanTokenSize == 64 * 1024

SecretLabel == <<"s", "e", "c", "r", "e", "t", ":">>
SecretPrefix == <<"s", "e", "c", "r", "e", "t", ":", " ">>
SharesPrefix == <<"s", "h", "a", "r", "e", "s">>
HeaderHead == <<"s", "h", "a", "r", "e", "s", " ", "(", "n", "e", "e", "d", " ", "a", "t", " ", "l", "e", "a", "s", "t", " ">>
HeaderTail == <<" ", "o", "f", " ", "t", "h", "e", "s", "e", " ", "f", "o", "r", " ", "r", "e", "c", "o", "v", "e", "r", "y", ")", ":">>
DiagHead == <<"r", "e", "a", "d", "i", "n", "g", " ", "s", "h", "a", "r", "e", " ">>

-----------------------------------------------------------------------------
\* Text helpers.

Max(a, b) == IF a > b THEN a ELSE b

DigitChars == <<"0", "1", "2", "3", "4", "5", "6", "7", "8", "9", "a", "b", "c", "d", "e", "f", "g", "h", "i", "j", "k", "l", "m", "n", "o", "p", "q", "r", "s", "t", "u", "v", "w", "x", "y", "z", "A", "B", "C", "D", "E", "F", "G", "H", "I", "J", "K", "L", "M", "N", "O", "P", "Q", "R", "S", "T", "U", "V", "W", "X", "Y", "Z">>

\* The text of v >= 0 in the given base, most significant digit first.
RECURSIVE FormatNat(_, _)
FormatNat(v, base) ==
  IF v < base THEN <<DigitChars[v + 1]>>
  ELSE Append(FormatNat(v \div base, base), DigitChars[(v % base) + 1])

Itoa(v) == IF v < 0 THEN <<"-">> \o FormatNat(0 - v, 10) ELSE FormatNat(v, 10)

IsDigit(c) == \E d \in 1..10 : DigitChars[d] = c

DigitValue(c) == (CHOOSE d \in 1..10 : DigitChars[d] = c) - 1

RECURSIVE ParseDigits(_, _)
ParseDigits(s, acc) ==
  IF s = <<>> THEN acc ELSE ParseDigits(Tail(s), acc * 10 + DigitValue(Head(s)))

IsSpace(c) == c \in {" ", "\t", "\r", "\n"}

\* strings.TrimSpace
TrimSpace(s) ==
  IF \A i \in 1..Len(s) : IsSpace(s[i]) THEN <<>>
  ELSE LET lo == CHOOSE i \in 1..Len(s) :
                   ~IsSpace(s[i]) /\ \A j \in 1..(i - 1) : IsSpace(s[j])
           hi == CHOOSE i \in 1..Len(s) :
                   ~IsSpace(s[i]) /\ \A j \in (i + 1)..Len(s) : IsSpace(s[j])
       IN IF lo = 1 /\ hi = Len(s) THEN s ELSE SubSeq(s, lo, hi)

\* strings.HasPrefix
HasPrefix(s, prefix) ==
  /\ Len(s) >= Len(prefix)
  /\ \A i \in 1..Len(prefix) : s[i] = prefix[i]

\* strconv.Quote, as used by the verb %q
RECURSIVE Escape(_)
Escape(s) ==
  IF s = <<>> THEN <<>>
  ELSE LET c == Head(s)
           e == IF c = "\"" THEN <<"\\", "\"">>
                ELSE IF c = "\\" THEN <<"\\", "\\">>
                ELSE IF c = "\t" THEN <<"\\", "t">>
                ELSE <<c>>
       IN e \o Escape(Tail(s))

Quote(s) == <<"\"">> \o Escape(s) \o <<"\"">>

-----------------------------------------------------------------------------
\* The sharing engine (package sharedsecret): a polynomial over a prime field with
\* the secret as constant term, shares as its values at x = 1..total, recovery by
\* Lagrange interpolation at zero. The field is scaled down to fit machine integers;
\* it stays larger than every share index, as the engine's field does.

Prime == 46337

MulMod(a, b) == ((a % Prime) * (b % Prime)) % Prime

RECURSIVE PowMod(_, _)
PowMod(b, e) ==
  IF e = 0 THEN 1
  ELSE LET h == PowMod(b, e \div 2)
           hh == MulMod(h, h)
       IN IF e % 2 = 1 THEN MulMod(hh, b) ELSE hh

InvMod(a) == PowMod(a % Prime, Prime - 2)

\* The polynomial coefs[1] + coefs[2] x + ... at x.
RECURSIVE PolyEval(_, _)
PolyEval(coefs, x) ==
  IF coefs = <<>> THEN 0
  ELSE (Head(coefs) + (x % Prime) * PolyEval(Tail(coefs), x)) % Prime

\* The engine's random polynomial of degree threshold - 1, drawn from rnd.
Polynomial(threshold, rnd) ==
  [i \in 1..threshold |-> IF i = 1 THEN rnd.secret ELSE rnd.coef]

\* sharedsecret.New(total, threshold): the shares it returns ...
NewShares(total, threshold, rnd) ==
  [x \in 1..total |-> [x |-> x, y |-> PolyEval(Polynomial(threshold, rnd), x)]]

\* ... and the secret it returns.
NewSecret(threshold, rnd) == PolyEval(Polynomial(threshold, rnd), 0)

\* The product of f(j) for j in lo..hi except skip, by halving the range.
RECURSIVE ProductX(_, _, _, _, _)
ProductX(shares, i, lo, hi, numerator) ==
  IF lo > hi THEN 1
  ELSE IF lo = hi
  THEN (IF lo = i THEN 1
        ELSE IF numerator THEN shares[lo].x % Prime
        ELSE (shares[lo].x - shares[i].x) % Prime)
  ELSE LET mid == (lo + hi) \div 2
       IN MulMod(ProductX(shares, i, lo, mid, numerator),
                 ProductX(shares, i, mid + 1, hi, numerator))

\* The i-th Lagrange term at zero: y_i * prod x_j / prod (x_j - x_i), j # i.
LagrangeTerm(shares, i) ==
  MulMod(shares[i].y,
         MulMod(ProductX(shares, i, 1, Len(shares), TRUE),
                InvMod(ProductX(shares, i, 1, Len(shares), FALSE))))

RECURSIVE LagrangeSum(_, _, _)
LagrangeSum(shares, lo, hi) ==
  IF lo > hi THEN 0
  ELSE IF lo = hi THEN LagrangeTerm(shares, lo)
  ELSE LET mid == (lo + hi) \div 2
       IN (LagrangeSum(shares, lo, mid) + LagrangeSum(shares, mid + 1, hi)) % Prime

\* sharedsecret.Recover(shares...)
Recover(shares) == LagrangeSum(shares, 1, Len(shares))

\* Share.String: "<index>,<value>" in decimal
ShareString(share) == Itoa(share.x) \o <<",">> \o Itoa(share.y)

\* big.Int.Text(62)
Text62(v) == FormatNat(v, 62)

ErrTwoParts == <<"e", "x", "p", "e", "c", "t", "e", "d", " ", "t", "w", "o", " ", "p", "a", "r", "t", "s">>
ErrBadIndex == <<"i", "n", "v", "a", "l", "i", "d", " ", "x">>
ErrBadValue == <<"i", "n", "v", "a", "l", "i", "d", " ", "y">>

IsNumber(s) == s # <<>> /\ \A i \in 1..Len(s) : IsDigit(s[i])

NoShare == [x |-> 0, y |-> 0]

\* Share.UnmarshalText
UnmarshalText(t) ==
  LET commas == {i \in 1..Len(t) : t[i] = ","}
  IN IF Cardinality(commas) # 1
     THEN [ok |-> FALSE, reason |-> ErrTwoParts, share |-> NoShare]
     ELSE LET p == CHOOSE i \in commas : TRUE
              xs == SubSeq(t, 1, p - 1)
              ys == SubSeq(t, p + 1, Len(t))
          IN IF ~IsNumber(xs)
             THEN [ok |-> FALSE, reason |-> ErrBadIndex, share |-> NoShare]
             ELSE IF ~IsNumber(ys)
             THEN [ok |-> FALSE, reason |-> ErrBadValue, share |-> NoShare]
             ELSE [ok |-> TRUE, reason |-> <<>>,
                   share |-> [x |-> ParseDigits(xs, 0), y |-> ParseDigits(ys, 0)]]

-----------------------------------------------------------------------------
\* cmdGenerate

\* Faulty variant: the two parameter checks in the other order.
ValidateGenerate_Swapped(n, k) ==
  IF n < 1 \/ k < 1 THEN ErrNotPositive
  ELSE IF k > n THEN ErrNotEnough
  ELSE ""

\* The parameter checks; "" when the parameters are valid.
ValidateGenerate(n, k) ==
  IF k > n THEN ErrNotEnough
  ELSE IF n < 1 \/ k < 1 THEN ErrNotPositive
  ELSE ""

\* The size of the pool asked of the engine.
GenSecrets(n) == Max(n * n, minShares)

\* Faulty variant: a threshold one too high.
NewArgs_ThresholdOff(n, k) == [total |-> GenSecrets(n), threshold |-> k + 1]

\* The arguments of the call of sharedsecret.New.
NewArgs(n, k) == [total |-> GenSecrets(n), threshold |-> k]

\* Faulty variant: a draw with replacement instead of a permutation.
Shuffle_Repeating(len, rnd) ==
  [i \in 1..len |-> ((rnd.start - 1 + ((i - 1) \div 2) * rnd.stride) % len) + 1]

\* rand.Shuffle: position i of the shuffled pool holds what position Shuffle[i]
\* held. The outcome is the permutation i -> start + (i - 1) * stride (mod len).
Shuffle(len, rnd) ==
  [i \in 1..len |-> ((rnd.start - 1 + (i - 1) * rnd.stride) % len) + 1]

\* Faulty variant: the slice is one share short.
Distributed_OneShort(shuffled, n) == [i \in 1..(n - 1) |-> shuffled[i]]

\* shares = shares[:n]
Distributed(shuffled, n) == [i \in 1..n |-> shuffled[i]]

SecretLine(secret) == SecretLabel \o <<" ">> \o Text62(secret)

HeaderLine(k) == HeaderHead \o Itoa(k) \o HeaderTail

cmdGenerate(n, k, rnd) ==
  IF ValidateGenerate(n, k) # ""
  THEN [err |-> ValidateGenerate(n, k), out |-> <<>>, calls |-> <<>>]
  ELSE LET args == NewArgs(n, k)
           made == NewShares(args.total, args.threshold, rnd)
           secret == NewSecret(args.threshold, rnd)
           perm == Shuffle(args.total, rnd)
           shuffled == [i \in 1..args.total |-> made[perm[i]]]
           shares == Distributed(shuffled, n)
       IN [err |-> "",
           out |-> <<SecretLine(secret), HeaderLine(k)>>
                   \o [i \in 1..Len(shares) |-> ShareString(shares[i])],
           calls |-> <<args>>]

-----------------------------------------------------------------------------
\* cmdRecover

\* A line of an input stream is kept as a text and the number of times it is
\* repeated to make up the line: [text |-> <<"x">>, repeat |-> 3] is the line "xxx".
Raw(chars) == [text |-> chars, repeat |-> 1]

RawLines(lines) == [i \in 1..Len(lines) |-> Raw(lines[i])]

\* The length of a line, in bytes.
Size(line) == Len(line.text) * line.repeat

\* scanner.Text(): the characters of a line.
Chars(line) ==
  IF line.repeat = 1 THEN line.text
  ELSE SubSeq([i \in 1..Size(line) |-> line.text[((i - 1) % Len(line.text)) + 1]],
              1, Size(line))

\* The lines scanner.Scan yields: it stops for good at the first line that does not
\* fit its buffer, and cmdRecover never looks at scanner.Err.
ScannerTokens(lines) ==
  LET long == {i \in 1..Len(lines) : Size(lines[i]) >= MaxScanTokenSize}
  IN IF long = {} THEN lines
     ELSE SubSeq(lines, 1, (CHOOSE i \in long : \A j \in long : i <= j) - 1)

\* Faulty variant: only empty lines are skipped.
Skip_EmptyOnly(t) == t = <<>>

\* Decoration: an empty line, the secret line or the shares header.
Skip(t) == t = <<>> \/ HasPrefix(t, SecretPrefix) \/ HasPrefix(t, SharesPrefix)

\* Faulty variant: the line between plain quotes ("%s") instead of quoted (%q).
DiagLine_PlainQuotes(t, reason) ==
  DiagHead \o <<"\"">> \o t \o <<"\"", ":", " ">> \o reason

\* "reading share %q: %s"
DiagLine(t, reason) == DiagHead \o Quote(t) \o <<":", " ">> \o reason

\* One turn of the loop over scanner.Scan.
ScanStep(st, raw) ==
  LET t == TrimSpace(raw)
      parsed == UnmarshalText(t)
  IN IF Skip(t) THEN [st EXCEPT !.handled = Append(@, "skip")]
     ELSE IF ~parsed.ok
     THEN [st EXCEPT !.diag = Append(@, DiagLine(t, parsed.reason)),
                     !.handled = Append(@, "diag")]
     ELSE [st EXCEPT !.secrets = Append(@, parsed.share),
                     !.handled = Append(@, "share")]

NoneScanned == [secrets |-> <<>>, diag |-> <<>>, handled |-> <<>>]

\* The loop over scanner.Scan on tokens[lo..hi], in order. A turn only appends to
\* what the earlier turns left, so the range is scanned by halves.
RECURSIVE ScanLoop(_, _, _)
ScanLoop(tokens, lo, hi) ==
  IF lo > hi THEN NoneScanned
  ELSE IF lo = hi THEN ScanStep(NoneScanned, Chars(tokens[lo]))
  ELSE LET mid == (lo + hi) \div 2
           first == ScanLoop(tokens, lo, mid)
           rest == ScanLoop(tokens, mid + 1, hi)
       IN [secrets |-> first.secrets \o rest.secrets,
           diag |-> first.diag \o rest.diag,
           handled |-> first.handled \o rest.handled]

\* Faulty variant: nothing is written when no share was collected.
EmitSecret_SilentOnEmpty(shares) ==
  IF shares = <<>> THEN <<>> ELSE <<Text62(Recover(shares))>>

\* secret := sharedsecret.Recover(secrets...); fmt.Fprintln(out, secret.Text(62))
EmitSecret(shares) == <<Text62(Recover(shares))>>

cmdRecover(lines) ==
  LET tokens == ScannerTokens(lines)
      st == ScanLoop(tokens, 1, Len(tokens))
  IN [err |-> "", secrets |-> st.secrets, diag |-> st.diag, handled |-> st.handled,
      out |-> EmitSecret(st.secrets)]

-----------------------------------------------------------------------------
\* The inputs the model draws from.

\* A line of MaxScanTokenSize characters: the shortest that does not fit the buffer.
LongLine == [text |-> <<"x">>, repeat |-> MaxScanTokenSize]

LineSample ==
  { Raw(<<>>),
    Raw(<<"f", "o", "o">>),
    Raw(<<" ", "f", "o", "o", " ">>),
    Raw(<<"a", "\"", "b">>),
    Raw(<<"1", ",", "2", ",", "3">>),
    Raw(<<"x", ",", "1">>),
    Raw(<<"1", ",", "x">>),
    Raw(<<"s", "e", "c", "r", "e", "t", ":", " ", "1", "a">>),
    Raw(<<"s", "h", "a", "r", "e", "s", ":">>),
    Raw(<<"1", ",", "5">>),
    Raw(<<" ", "2", ",", "7", "\t">>),
    LongLine }

RECURSIVE SeqsUpTo(_, _)
SeqsUpTo(S, n) ==
  IF n = 0 THEN {<<>>}
  ELSE LET shorter == SeqsUpTo(S, n - 1)
       IN shorter \cup {Append(q, e) : q \in {r \in shorter : Len(r) = n - 1}, e \in S}

Inputs == SeqsUpTo(LineSample, MaxLines)

FileSample ==
  {[exists |-> FALSE, lines |-> <<>>]}
    \cup {[exists |-> TRUE, lines |-> l] : l \in SeqsUpTo(LineSample, 1)}

NSample == (-1..MaxN) \cup {DefaultN, BigN}

KSample == (-1..MaxK) \cup {DefaultK, -10, 10}

SecretSample == {0, 62, Prime - 1}

CoefSample == {1, Prime - 1}

RECURSIVE GCD(_, _)
GCD(a, b) == IF b = 0 THEN a ELSE GCD(b, a % b)

\* Outcomes of the engine's random polynomial and of rand.Shuffle on len elements.
Entropy(len) ==
  [secret : SecretSample,
   coef : CoefSample,
   start : {1, 2, len},
   stride : {s \in {1, 7, len - 1} : GCD(s, len) = 1}]

NoGen == [n |-> 0, k |-> 0, out |-> <<>>, picked |-> {}, decorated |-> FALSE]

\* The sets of share lines pasted into a recovery: every subset for small n, and
\* windows around the threshold at both ends for larger n.
Selections(n, k) ==
  IF n <= MaxSubsetN THEN SUBSET (1..n)
  ELSE {1..len : len \in {k - 1, k, k + 1}}
         \cup {(n - len + 1)..n : len \in {k - 1, k, k + 1}}

RECURSIVE PickLines(_, _, _)
PickLines(lines, picked, i) ==
  IF i > Len(lines) THEN <<>>
  ELSE (IF i \in picked THEN <<lines[i]>> ELSE <<>>) \o PickLines(lines, picked, i + 1)

ShareLines(output) == SubSeq(output, 3, Len(output))

-----------------------------------------------------------------------------
\* The program.

Init ==
  /\ pc = "start" /\ exit = -1
  /\ out = <<>> /\ diag = <<>> /\ errMsg = "" /\ usage = FALSE
  /\ reader = "none" /\ fileOpen = FALSE
  /\ engineNew = <<>> /\ engineRecover = <<>> /\ handled = <<>>
  /\ gen = NoGen
  /\ \/ /\ doRecover = FALSE
        /\ numShares \in NSample /\ minSharesFlag \in KSample
        /\ secrets = StdinArg /\ stdin = <<>>
        /\ file = [exists |-> FALSE, lines |-> <<>>]
     \/ /\ doRecover = TRUE
        /\ numShares = DefaultN /\ minSharesFlag = DefaultK
        /\ secrets = StdinArg /\ stdin \in Inputs
        /\ file = [exists |-> FALSE, lines |-> <<>>]
     \/ /\ doRecover = TRUE
        /\ numShares = DefaultN /\ minSharesFlag = DefaultK
        /\ secrets = "shares.txt" /\ stdin = <<>>
        /\ file \in FileSample

\* main without -recover: cmdGenerate, die(err, true) on error.
MainGenerate ==
  /\ pc = "start" /\ ~doRecover
  /\ \E rnd \in Entropy(GenSecrets(numShares)) :
     \E r \in {cmdGenerate(numShares, minSharesFlag, rnd)} :
          /\ out' = r.out
          /\ engineNew' = r.calls
          /\ errMsg' = r.err
          /\ usage' = (r.err # "")
          /\ exit' = IF r.err # "" THEN 1 ELSE 0
  /\ pc' = "exited"
  /\ UNCHANGED <<doRecover, numShares, minSharesFlag, secrets, stdin, file, diag,
                 reader, fileOpen, engineRecover, handled, gen>>

\* main with -recover and a path that cannot be opened: die(err, false).
MainOpenFails ==
  /\ pc = "start" /\ doRecover
  /\ secrets # StdinArg /\ ~file.exists
  /\ errMsg' = "open: no such file or directory"
  /\ usage' = FALSE
  /\ exit' = 1
  /\ pc' = "exited"
  /\ UNCHANGED <<doRecover, numShares, minSharesFlag, secrets, stdin, file, out, diag,
                 reader, fileOpen, engineNew, engineRecover, handled, gen>>

\* The variable fh that main passes to cmdRecover. In the default case
\* "fh, err := os.Open(...)" declares a new fh inside the case, so the outer fh,
\* the one passed on, is still nil.
HandedReader(secretsArg) == IF secretsArg = StdinArg THEN "stdin" ELSE "nil"

\* main with -recover and a readable source: cmdRecover(fh, os.Stderr, os.Stdout).
\* Reading from a nil io.Reader panics in scanner.Scan; the deferred Close of the
\* opened file runs, and the process ends with exit code 2.
MainRecover ==
  /\ pc = "start" /\ doRecover
  /\ secrets = StdinArg \/ file.exists
  /\ \E fh \in {HandedReader(secrets)} :
       /\ reader' = fh
       /\ IF fh = "nil"
          THEN /\ exit' = 2
               /\ UNCHANGED <<out, diag, engineRecover, handled>>
          ELSE \E r \in {cmdRecover(IF fh = "stdin" THEN stdin ELSE file.lines)} :
               /\ exit' = IF r.err # "" THEN 1 ELSE 0
               /\ out' = r.out
               /\ diag' = r.diag
               /\ handled' = r.handled
               /\ engineRecover' = <<r.secrets>>
  /\ fileOpen' = FALSE
  /\ pc' = "exited"
  /\ UNCHANGED <<doRecover, numShares, minSharesFlag, secrets, stdin, file, errMsg,
                 usage, engineNew, gen>>

\* The round trip of the tests: lines of the output of a successful generation are
\* pasted to the standard input of a new invocation with -recover.
Paste ==
  /\ pc = "exited" /\ ~doRecover /\ exit = 0 /\ gen = NoGen
  /\ \E picked \in Selections(numShares, minSharesFlag), decorated \in BOOLEAN :
       /\ gen' = [n |-> numShares, k |-> minSharesFlag, out |-> out,
                  picked |-> picked, decorated |-> decorated]
       /\ stdin' = RawLines((IF decorated THEN SubSeq(out, 1, 2) ELSE <<>>)
                              \o PickLines(ShareLines(out), picked, 1))
  /\ doRecover' = TRUE /\ numShares' = DefaultN /\ minSharesFlag' = DefaultK
  /\ secrets' = StdinArg
  /\ pc' = "start" /\ exit' = -1
  /\ out' = <<>> /\ diag' = <<>> /\ errMsg' = "" /\ usage' = FALSE
  /\ reader' = "none" /\ engineNew' = <<>> /\ engineRecover' = <<>> /\ handled' = <<>>
  /\ UNCHANGED <<file, fileOpen>>

Next == MainGenerate \/ MainOpenFails \/ MainRecover \/ Paste

Spec == Init /\ [][Next]_vars

-----------------------------------------------------------------------------
\* Properties.

GenerateDone == pc = "exited" /\ ~doRecover

RecoverDone == pc = "exited" /\ doRecover

\* The secret text of a "secret: <text>" line, as TestRoundtrip cuts it out.
SecretTextOf(line) == SubSeq(line, Len(SecretPrefix) + 1, Len(line))

\* The index a share line of the output carries.
IndexOf(line) == UnmarshalText(line).share.x

\* C1: recovering from any subset of at least k of the n share lines of a generation
\* writes exactly the secret text of that generation's "secret: " line.
C1_RoundTrip ==
  (RecoverDone /\ gen # NoGen /\ ~gen.decorated /\ Cardinality(gen.picked) >= gen.k)
    => /\ exit = 0
       /\ out = <<SecretTextOf(gen.out[1])>>

C1_Witness ==
  /\ RecoverDone /\ gen.n = 5 /\ gen.k = 3 /\ ~gen.decorated
  /\ gen.picked = {1, 3, 5}
  /\ Len(engineRecover[1]) = 3
  /\ out = <<SecretTextOf(gen.out[1])>>
  /\ out # <<<<"0">>>>

\* C2: recovery fed the entire generation output writes the same secret as recovery
\* fed only the share lines, and neither writes a diagnostic.
C2_DecorationTolerance ==
  (RecoverDone /\ gen # NoGen /\ gen.decorated /\ gen.picked = 1..gen.n)
    => /\ stdin = RawLines(gen.out)
       /\ out = cmdRecover(RawLines(ShareLines(gen.out))).out
       /\ diag = <<>>
       /\ cmdRecover(RawLines(ShareLines(gen.out))).diag = <<>>

C2_Witness ==
  /\ RecoverDone /\ gen.decorated /\ gen.n = 3 /\ gen.picked = 1..3
  /\ stdin = RawLines(gen.out)
  /\ handled = <<"skip", "skip", "share", "share", "share">>
  /\ diag = <<>>

\* C3: a generation with 1 <= k <= n succeeds and writes n share lines after the two
\* header lines, with pairwise distinct indices in 1..max(n*n, 10000).
C3_DistributesNShares ==
  (GenerateDone /\ 1 <= minSharesFlag /\ minSharesFlag <= numShares)
    => /\ exit = 0 /\ errMsg = ""
       /\ Len(out) = numShares + 2
       /\ \A i \in 3..Len(out) : UnmarshalText(out[i]).ok
       /\ LET indices == {IndexOf(out[i]) : i \in 3..Len(out)}
          IN /\ Cardinality(indices) = numShares
             /\ \A x \in indices :
                  /\ x >= 1
                  /\ x <= (IF numShares * numShares > 10000
                           THEN numShares * numShares ELSE 10000)

C3_Witness ==
  /\ GenerateDone /\ numShares > 100 /\ minSharesFlag = 10
  /\ Len(out) = numShares + 2
  /\ \E i \in 3..Len(out) : IndexOf(out[i]) > 10000

\* C4: a generation fails exactly when k > n or n < 1 or k < 1, with the "not enough
\* shares" error when k > n and the "larger than 1" error otherwise, and a failing
\* generation neither calls the engine nor writes any output.
C4_GenerateFailFast ==
  GenerateDone
    => /\ (errMsg # "") <=> (minSharesFlag > numShares \/ numShares < 1 \/ minSharesFlag < 1)
       /\ (exit = 1) <=> (errMsg # "")
       /\ minSharesFlag > numShares => errMsg = ErrNotEnough
       /\ (minSharesFlag <= numShares /\ (numShares < 1 \/ minSharesFlag < 1))
            => errMsg = ErrNotPositive
       /\ errMsg # "" => (engineNew = <<>> /\ out = <<>>)

C4_Witness ==
  /\ GenerateDone /\ numShares = 0 /\ minSharesFlag = 1
  /\ errMsg = ErrNotEnough /\ exit = 1 /\ usage
  /\ engineNew = <<>> /\ out = <<>>

\* Whether a line, trimmed, parses as a share.
IsShareLine(line) == UnmarshalText(TrimSpace(Chars(line))).ok

\* Whether a line is decoration: empty, the secret line or the shares header.
IsDecoration(line) ==
  LET t == TrimSpace(Chars(line))
  IN t = <<>> \/ HasPrefix(t, SecretPrefix) \/ HasPrefix(t, SharesPrefix)

IsMalformed(line) == ~IsDecoration(line) /\ ~IsShareLine(line)

RECURSIVE WithoutMalformed(_)
WithoutMalformed(lines) ==
  IF lines = <<>> THEN <<>>
  ELSE (IF IsMalformed(Head(lines)) THEN <<>> ELSE <<Head(lines)>>)
         \o WithoutMalformed(Tail(lines))

RECURSIVE SharesIn(_)
SharesIn(lines) ==
  IF lines = <<>> THEN <<>>
  ELSE (IF IsShareLine(Head(lines))
        THEN <<UnmarshalText(TrimSpace(Chars(Head(lines)))).share>> ELSE <<>>)
         \o SharesIn(Tail(lines))

\* The diagnostics the claim C10 expects: one per malformed line, in input order,
\* quoting the input line as it is.
RECURSIVE VerbatimDiagnostics(_)
VerbatimDiagnostics(lines) ==
  IF lines = <<>> THEN <<>>
  ELSE (IF IsMalformed(Head(lines))
        THEN <<DiagHead \o <<"\"">> \o Chars(Head(lines)) \o <<"\"", ":", " ">>
                 \o UnmarshalText(TrimSpace(Chars(Head(lines)))).reason>>
        ELSE <<>>)
         \o VerbatimDiagnostics(Tail(lines))

NoShareHandled == \A i \in 1..Len(handled) : handled[i] # "share"

\* C5 (as claimed): cmdRecover returns no error, and the secret it writes is the one it
\* writes for the same input with every malformed line removed.
C5_MalformedLinesChangeNothing ==
  (RecoverDone /\ reader = "stdin")
    => /\ exit = 0
       /\ out = cmdRecover(WithoutMalformed(stdin)).out

C7_NothingEmitted ==
  (RecoverDone /\ reader = "stdin" /\ NoShareHandled) => out = <<>>

\* C7 (amended): with no share parsed, cmdRecover still calls Recover, with no shares,
\* and writes one line: the base-62 text of what Recover returned.
C7_EmptyRecoveryEmitted ==
  (RecoverDone /\ reader = "stdin" /\ NoShareHandled)
    => /\ engineRecover = << <<>> >>
       /\ Len(out) = 1
       /\ out[1] = Text62(Recover(<<>>))

C7_Witness ==
  /\ RecoverDone /\ reader = "stdin"
  /\ handled = <<"skip", "diag">>
  /\ engineRecover = << <<>> >>
  /\ out = << <<"0">> >>

\* C8 (as claimed): with -secrets "-" cmdRecover reads standard input; with a path that
\* opens, cmdRecover is handed the opened file and reads its lines; when the open
\* fails the run ends with exit code 1, without usage and without cmdRecover.
C8_SecretsSelectsSource ==
  (RecoverDone /\ gen = NoGen)
    => /\ secrets = StdinArg
            => (reader = "stdin" /\ out = cmdRecover(stdin).out)
       /\ (secrets # StdinArg /\ file.exists)
            => (reader = "file" /\ exit = 0 /\ out = cmdRecover(file.lines).out)
       /\ (secrets # StdinArg /\ ~file.exists)
            => (exit = 1 /\ ~usage /\ reader = "none" /\ engineRecover = <<>>)

\* C9 (as claimed): cmdRecover examines every line of the input, and passes to Recover
\* exactly the lines that parse as shares, in input order, repeats kept.
C9_EveryLineExamined ==
  (RecoverDone /\ reader = "stdin")
    => /\ Len(handled) = Len(stdin)
       /\ engineRecover = <<SharesIn(stdin)>>

\* C10 (as claimed): every input line is skipped (iff it is decoration), accepted or
\* reported; each reported line gives one diagnostic 'reading share "<line>": <reason>'
\* with the input line verbatim, in input order.
C10_Diagnostics ==
  (RecoverDone /\ reader = "stdin")
    => /\ Len(handled) = Len(stdin)
       /\ \A i \in 1..Len(handled) :
            /\ handled[i] \in {"skip", "share", "diag"}
            /\ handled[i] = "skip" <=> IsDecoration(stdin[i])
            /\ handled[i] = "share" <=> IsShareLine(stdin[i]) /\ ~IsDecoration(stdin[i])
       /\ diag = VerbatimDiagnostics(stdin)

\* The lines before the first line of 64 KiB or more.
RECURSIVE Delivered(_)
Delivered(lines) ==
  IF lines = <<>> \/ Size(Head(lines)) >= 65536 THEN <<>>
  ELSE <<Head(lines)>> \o Delivered(Tail(lines))

\* One diagnostic per malformed line, in input order, with the trimmed line quoted.
RECURSIVE QuotedDiagnostics(_)
QuotedDiagnostics(lines) ==
  IF lines = <<>> THEN <<>>
  ELSE (IF IsMalformed(Head(lines))
        THEN <<DiagHead \o Quote(TrimSpace(Chars(Head(lines)))) \o <<":", " ">>
                 \o UnmarshalText(TrimSpace(Chars(Head(lines)))).reason>>
        ELSE <<>>)
         \o QuotedDiagnostics(Tail(lines))

\* C10 (amended): every line up to the first line of 64 KiB or more, where the scan
\* ends, is skipped (iff it is decoration), accepted or reported, and no later line is
\* handled; each reported line gives one diagnostic 'reading share <q>: <reason>',
\* <q> being the trimmed line quoted as %q prints it; diagnostics are in input order.
C10_QuotedDiagnostics ==
  (RecoverDone /\ reader = "stdin")
    => LET seen == Delivered(stdin)
       IN /\ Len(handled) = Len(seen)
          /\ \A i \in 1..Len(seen) :
               /\ handled[i] \in {"skip", "share", "diag"}
               /\ handled[i] = "skip" <=> IsDecoration(seen[i])
               /\ handled[i] = "share" <=> IsShareLine(seen[i]) /\ ~IsDecoration(seen[i])
          /\ diag = QuotedDiagnostics(seen)

C10_Witness ==
  /\ RecoverDone /\ reader = "stdin"
  /\ stdin = <<Raw(<<" ", "f", "o", "o", " ">>), Raw(<<"a", "\"", "b">>)>>
  /\ handled = <<"diag", "diag">>
  /\ diag = << DiagHead \o <<"\"", "f", "o", "o", "\"", ":", " ">> \o ErrTwoParts,
               DiagHead \o <<"\"", "a", "\\", "\"", "b", "\"", ":", " ">> \o ErrTwoParts >>

====
